---- MODULE Spec2Model ----
(***************************************************************************)
(* A model of the tool-invocation gateway of src/src/index.ts: the start   *)
(* up sequence (eight registrations, then connect), the per-request state  *)
(* machine of the dispatcher, and the handlers of the six tools, the       *)
(* server-info resource and the code-review prompt.                        *)
(*                                                                         *)
(* Texts.  A text is a sequence of lines and a line is a sequence of       *)
(* string fragments; the text of the program is the fragments of a line    *)
(* concatenated and the lines joined by "\n".  An error message is one     *)
(* line.  The Korean literals of the source are written as ASCII glosses   *)
(* (the module's strings are ASCII); each gloss names its source line.     *)
(***************************************************************************)
EXTENDS Integers, Sequences, FiniteSets, TLC

VARIABLES
    HF_TOKEN,      \* the credential loaded at module load ("" when none)
    pcMain,        \* position of the module's top-level code
    regIdx,        \* number of registration calls of the program executed
    tools,         \* tool registry: descriptors in registration order
    resources,     \* resource registry
    prompts,       \* prompt registry
    lastReg,       \* the last register call and its outcome
    stdout,        \* lines the top-level code logged
    inv,           \* per slot: the invocation in progress
    client         \* per slot: envelopes sent for the current request

vars == <<HF_TOKEN, pcMain, regIdx, tools, resources, prompts, lastReg,
          stdout, inv, client>>

-----------------------------------------------------------------------------
(* Bounds *)

NumLo == 0 - 2
NumHi == 6
MaxFracDigits == 2
FdHi == 17

Slots == {1, 2}
Serial == {1}

-----------------------------------------------------------------------------
(* JSON values of an argument: absent, an integer n, the non-integral     *)
(* number n + 0.5, or a string.                                            *)

AbsentV == [k |-> "absent", n |-> 0, s |-> ""]
IntV(n) == [k |-> "int", n |-> n, s |-> ""]
RealV(n) == [k |-> "real", n |-> n, s |-> ""]
StrV(s) == [k |-> "str", n |-> 0, s |-> s]

ArgOf(args, f) == IF f \in DOMAIN args THEN args[f] ELSE AbsentV

-----------------------------------------------------------------------------
(* Declared input shapes, field by field in declaration order.            *)

FString(name) ==
    [name |-> name, type |-> "string", values |-> {}, int |-> FALSE,
     bounded |-> FALSE, min |-> 0, max |-> 0,
     optional |-> FALSE, hasDefault |-> FALSE, default |-> AbsentV]

FNumber(name) ==
    [name |-> name, type |-> "number", values |-> {}, int |-> FALSE,
     bounded |-> FALSE, min |-> 0, max |-> 0,
     optional |-> FALSE, hasDefault |-> FALSE, default |-> AbsentV]

FEnum(name, values) ==
    [name |-> name, type |-> "enum", values |-> values, int |-> FALSE,
     bounded |-> FALSE, min |-> 0, max |-> 0,
     optional |-> FALSE, hasDefault |-> FALSE, default |-> AbsentV]

WithDefault(f, d) == [f EXCEPT !.optional = TRUE, !.hasDefault = TRUE, !.default = d]
Optional(f) == [f EXCEPT !.optional = TRUE]
IntRange(f, lo, hi) == [f EXCEPT !.int = TRUE, !.bounded = TRUE, !.min = lo, !.max = hi]

Operators == {"+", "-", "*", "/"}
Languages == {"ko", "en"}
Focuses == {"performance", "security", "best-practices", "readability", "all"}

ForecastDaysMin == 1
ForecastDaysMax == 16
ForecastDaysDefault == 7

greetShape == <<FString("name"), WithDefault(FEnum("language", Languages), StrV("en"))>>

calculatorShape == <<FNumber("number1"), FNumber("number2"), FEnum("operator", Operators)>>

get_timeShape == <<FString("timezone")>>

geocodeShape == <<FString("query")>>

\* get_weatherShape with the upper limit off by one.
get_weatherShapeWide ==
    <<FNumber("latitude"), FNumber("longitude"),
      WithDefault(IntRange(FNumber("forecast_days"), ForecastDaysMin, ForecastDaysMax + 1),
                  IntV(ForecastDaysDefault))>>

get_weatherShape ==
    <<FNumber("latitude"), FNumber("longitude"),
      WithDefault(IntRange(FNumber("forecast_days"), ForecastDaysMin, ForecastDaysMax),
                  IntV(ForecastDaysDefault))>>

generate_imageShape == <<FString("prompt")>>

codeReviewShape ==
    <<FString("code"), Optional(FString("language")),
      WithDefault(FEnum("focus", Focuses), StrV("all"))>>

serverInfoShape == <<>>

-----------------------------------------------------------------------------
(* Schema Validator: accept or reject, defaults applied on accept.        *)

FieldReason(f, v) ==
    IF v.k = "absent"
    THEN IF f.hasDefault \/ f.optional THEN "ok" ELSE "missing"
    ELSE CASE f.type = "string" -> IF v.k = "str" THEN "ok" ELSE "invalid_type"
           [] f.type = "enum" ->
                IF v.k = "str" /\ v.s \in f.values THEN "ok" ELSE "invalid_enum"
           [] f.type = "number" ->
                IF v.k \notin {"int", "real"} THEN "invalid_type"
                ELSE IF f.int /\ v.k # "int" THEN "invalid_type"
                ELSE IF f.bounded /\ (v.n < f.min \/ v.n > f.max) THEN "out_of_range"
                ELSE "ok"

RECURSIVE Violations(_, _)
Violations(shape, args) ==
    IF shape = <<>> THEN <<>>
    ELSE LET f == Head(shape)
             why == FieldReason(f, ArgOf(args, f.name))
             rest == Violations(Tail(shape), args)
         IN  IF why = "ok" THEN rest
             ELSE <<[field |-> f.name, reason |-> why]>> \o rest

FieldNames(shape) == {shape[i].name : i \in 1..Len(shape)}

FieldSpecOf(shape, name) == shape[CHOOSE i \in 1..Len(shape) : shape[i].name = name]

Normalize(shape, args) ==
    [name \in FieldNames(shape) |->
        LET f == FieldSpecOf(shape, name)
            v == ArgOf(args, name)
        IN  IF v.k = "absent" /\ f.hasDefault THEN f.default ELSE v]

Accepts(shape, args) == Violations(shape, args) = <<>>

-----------------------------------------------------------------------------
(* Registries: descriptors in registration order, keys unique.            *)

Descriptor(kind, key, name, outputShape) ==
    [kind |-> kind, key |-> key, name |-> name, outputShape |-> outputShape]

Keys(reg) == {reg[i].key : i \in 1..Len(reg)}

\* Register that replaces the descriptor already stored under the key.
RegisterOverwrite(reg, d) ==
    IF d.key \in Keys(reg)
    THEN [ok |-> FALSE, reg |-> [i \in 1..Len(reg) |-> IF reg[i].key = d.key THEN d ELSE reg[i]]]
    ELSE [ok |-> TRUE, reg |-> Append(reg, d)]

Register(reg, d) ==
    IF d.key \in Keys(reg)
    THEN [ok |-> FALSE, reg |-> reg]
    ELSE [ok |-> TRUE, reg |-> Append(reg, d)]

Lookup(reg, key) ==
    IF key \in Keys(reg)
    THEN [found |-> TRUE, d |-> reg[CHOOSE i \in 1..Len(reg) : reg[i].key = key]]
    ELSE [found |-> FALSE, d |-> Descriptor("none", "", "", FALSE)]

\* The registration calls of the module's top-level code, in source order.
Program ==
    <<Descriptor("tool", "greet", "greet", TRUE),
      Descriptor("tool", "calculator", "calculator", TRUE),
      Descriptor("tool", "get_time", "get_time", TRUE),
      Descriptor("tool", "geocode", "geocode", TRUE),
      Descriptor("tool", "get_weather", "get_weather", TRUE),
      Descriptor("tool", "generate_image", "generate_image", FALSE),
      Descriptor("resource", "mcp://server-info", "server-info", FALSE),
      Descriptor("prompt", "code-review", "code-review", FALSE)>>

InputShape(kind, key) ==
    CASE kind = "tool" /\ key = "greet" -> greetShape
      [] kind = "tool" /\ key = "calculator" -> calculatorShape
      [] kind = "tool" /\ key = "get_time" -> get_timeShape
      [] kind = "tool" /\ key = "geocode" -> geocodeShape
      [] kind = "tool" /\ key = "get_weather" -> get_weatherShape
      [] kind = "tool" /\ key = "generate_image" -> generate_imageShape
      [] kind = "prompt" /\ key = "code-review" -> codeReviewShape
      [] OTHER -> serverInfoShape

RegistryOf(kind) ==
    CASE kind = "tool" -> tools
      [] kind = "resource" -> resources
      [] OTHER -> prompts

NoReg == [called |-> FALSE, d |-> Descriptor("none", "", "", FALSE), ok |-> TRUE]

\* One register call: the registry of the descriptor's kind is updated, and a
\* duplicate key throws at the module's top level, which ends the process.
RegisterCall(d) ==
    LET res == Register(RegistryOf(d.kind), d)
    IN  /\ tools' = IF d.kind = "tool" THEN res.reg ELSE tools
        /\ resources' = IF d.kind = "resource" THEN res.reg ELSE resources
        /\ prompts' = IF d.kind = "prompt" THEN res.reg ELSE prompts
        /\ lastReg' = [called |-> TRUE, d |-> d, ok |-> res.ok]
        /\ pcMain' = IF ~res.ok THEN "crashed"
                     ELSE IF regIdx' = Len(Program) THEN "connecting"
                     ELSE "registering"

RegisterNext ==
    /\ pcMain = "registering"
    /\ regIdx < Len(Program)
    /\ regIdx' = regIdx + 1
    /\ RegisterCall(Program[regIdx + 1])
    /\ UNCHANGED <<HF_TOKEN, stdout, inv, client>>

ConnectOk ==
    /\ pcMain = "connecting"
    /\ pcMain' = "connected"
    /\ UNCHANGED <<HF_TOKEN, regIdx, tools, resources, prompts, lastReg, stdout, inv, client>>

\* connect rejects; .catch(console.error) handles the rejection (stderr).
ConnectFail ==
    /\ pcMain = "connecting"
    /\ pcMain' = "connectFailed"
    /\ UNCHANGED <<HF_TOKEN, regIdx, tools, resources, prompts, lastReg, stdout, inv, client>>

\* The .then callback, which follows the .catch in either case.
LogStarted ==
    /\ pcMain \in {"connected", "connectFailed"}
    /\ stdout' = Append(stdout, "MCP server started")
    /\ pcMain' = IF pcMain = "connected" THEN "serving" ELSE "noTransport"
    /\ UNCHANGED <<HF_TOKEN, regIdx, tools, resources, prompts, lastReg, inv, client>>

-----------------------------------------------------------------------------
(* Handler results.                                                        *)

TextBlock(text) == [type |-> "text", text |-> text, data |-> "", mimeType |-> ""]
ImageBlock(data, mimeType) == [type |-> "image", text |-> <<>>, data |-> data, mimeType |-> mimeType]

NoStructured == [present |-> FALSE, content |-> <<>>]
Structured(content) == [present |-> TRUE, content |-> content]

NoList == [count |-> 0, list |-> <<>>]
NoDoc == [isDoc |-> FALSE, tools |-> NoList, prompts |-> NoList, resources |-> NoList]

\* A returned result: tool content (with its structured mirror when the
\* handler supplies one), a resource document, or a prompt's message list.
Returned(content, structured, doc, messages) ==
    [ok |-> TRUE, content |-> content, structured |-> structured, doc |-> doc,
     messages |-> messages, thrown |-> <<>>, cause |-> <<>>]

\* A thrown Error: its message, and the message of the failure it stems from.
Threw(thrown, cause) ==
    [ok |-> FALSE, content |-> <<>>, structured |-> NoStructured, doc |-> NoDoc,
     messages |-> <<>>, thrown |-> thrown, cause |-> cause]

NoOutcome ==
    [ok |-> FALSE, content |-> <<>>, structured |-> NoStructured, doc |-> NoDoc,
     messages |-> <<>>, thrown |-> <<>>, cause |-> <<>>]

\* TextResult without the structuredContent mirror.
TextResultBare(text) ==
    Returned(<<TextBlock(text)>>, NoStructured, NoDoc, <<>>)

\* content and structuredContent.content carrying the same text block
TextResult(text) ==
    Returned(<<TextBlock(text)>>, Structured(<<TextBlock(text)>>), NoDoc, <<>>)

\* A handler that suspends on an external call.
Pending(service) == [done |-> FALSE, service |-> service, outcome |-> NoOutcome]
Done(outcome) == [done |-> TRUE, service |-> "", outcome |-> outcome]

\* A catch that swallows the error: the handler returns an empty result.
RethrowSwallow(prefix, generic, err) ==
    Returned(<<>>, NoStructured, NoDoc, <<>>)

\* catch (error): an Error is rethrown with the prefix before its message,
\* anything else as the generic message.
Rethrow(prefix, generic, err) ==
    IF err.isError THEN Threw(<<prefix>> \o err.message, err.message)
    ELSE Threw(<<generic>>, err.message)

ErrorOf(message) == [isError |-> TRUE, message |-> message]

-----------------------------------------------------------------------------
(* Number to string, as a template literal prints it.                     *)

Abs(n) == IF n < 0 THEN 0 - n ELSE n

RECURSIVE FracDigits(_, _, _)
\* the decimal digits of rem / den after the point, at most k of them
FracDigits(rem, den, k) ==
    IF rem = 0 \/ k = 0 THEN ""
    ELSE ToString((rem * 10) \div den) \o FracDigits((rem * 10) % den, den, k - 1)

RECURSIVE Terminates(_, _, _)
\* rem / den has at most k decimal digits
Terminates(rem, den, k) ==
    IF rem = 0 THEN TRUE
    ELSE IF k = 0 THEN FALSE
    ELSE Terminates((rem * 10) % den, den, k - 1)

\* the string of the quotient a / b (b # 0) when its decimal expansion ends
QuotientStr(a, b) ==
    LET neg == (a < 0 /\ b > 0) \/ (a > 0 /\ b < 0)
        ip == Abs(a) \div Abs(b)
        rem == Abs(a) % Abs(b)
    IN  (IF neg THEN "-" ELSE "") \o ToString(ip) \o
        (IF rem = 0 THEN "" ELSE "." \o FracDigits(rem, Abs(b), MaxFracDigits + 1))

\* the string of dividing by zero: Infinity, -Infinity or NaN
DivZeroStr(a) == IF a > 0 THEN "Infinity" ELSE IF a < 0 THEN "-Infinity" ELSE "NaN"

-----------------------------------------------------------------------------
(* greet *)

greet(a) ==
    LET name == a.name.s
        greeting == IF a.language.s = "ko"
                    THEN <<"annyeonghaseyo, ", name, "nim!">>
                    ELSE <<"Hey there, ", name, "! Nice to meet you!">>
    IN  TextResult(<<greeting>>)

-----------------------------------------------------------------------------
(* calculator *)

DivisionByZeroMessage == <<"Cannot divide by zero.">>

CalcText(expression, result) == <<<<expression \o " = " \o result>>>>

\* calculator without the zero test of the division case.
calculatorNoZeroTest(a) ==
    LET n1 == a.number1.n
        n2 == a.number2.n
        op == a.operator.s
    IN  CASE op = "+" -> TextResult(CalcText(ToString(n1) \o " + " \o ToString(n2), ToString(n1 + n2)))
          [] op = "-" -> TextResult(CalcText(ToString(n1) \o " - " \o ToString(n2), ToString(n1 - n2)))
          [] op = "*" -> TextResult(CalcText(ToString(n1) \o " * " \o ToString(n2), ToString(n1 * n2)))
          [] op = "/" ->
                TextResult(CalcText(ToString(n1) \o " / " \o ToString(n2),
                                    IF n2 = 0 THEN DivZeroStr(n1) ELSE QuotientStr(n1, n2)))

calculator(a) ==
    LET n1 == a.number1.n
        n2 == a.number2.n
        op == a.operator.s
    IN  CASE op = "+" -> TextResult(CalcText(ToString(n1) \o " + " \o ToString(n2), ToString(n1 + n2)))
          [] op = "-" -> TextResult(CalcText(ToString(n1) \o " - " \o ToString(n2), ToString(n1 - n2)))
          [] op = "*" -> TextResult(CalcText(ToString(n1) \o " * " \o ToString(n2), ToString(n1 * n2)))
          [] op = "/" ->
                IF n2 = 0 THEN Threw(DivisionByZeroMessage, DivisionByZeroMessage)
                ELSE TextResult(CalcText(ToString(n1) \o " / " \o ToString(n2), QuotientStr(n1, n2)))

-----------------------------------------------------------------------------
(* get_time *)

\* the IANA names Intl.DateTimeFormat accepts, among those requested
ValidTimezones == {"Asia/Seoul", "UTC"}

\* the RangeError of Intl.DateTimeFormat for an unknown timeZone
TimezoneRangeError(timezone) == <<"Invalid time zone specified: ", timezone>>

FormattedTime(timezone, now) == "time " \o ToString(now) \o " in " \o timezone

get_time(a, now) ==
    LET timezone == a.timezone.s
    IN  IF timezone \in ValidTimezones
        THEN TextResult(<< <<"Timezone: ", timezone>>,
                           <<"Current time: ", FormattedTime(timezone, now)>> >>)
        ELSE Threw(<<"Invalid timezone: ", timezone>>, TimezoneRangeError(timezone))

-----------------------------------------------------------------------------
(* Replies of the external services.  A fetch either rejects with an      *)
(* Error or resolves to a response with a status and a body, which parses *)
(* as JSON or does not.                                                    *)

FetchFailed == <<"fetch failed">>
JsonSyntaxError == <<"Unexpected token < in JSON at position 0">>

Rejected(message) ==
    [kind |-> "reject", message |-> message, status |-> 0, statusText |-> "",
     parses |-> FALSE, data |-> <<>>]
Response(status, statusText, parses, data) ==
    [kind |-> "response", message |-> <<>>, status |-> status, statusText |-> statusText,
     parses |-> parses, data |-> data]

NoReply ==
    [kind |-> "none", message |-> <<>>, status |-> 0, statusText |-> "",
     parses |-> FALSE, data |-> <<>>]

ResponseOk(reply) == reply.status >= 200 /\ reply.status <= 299

RequestFailed(reply) == <<"API request failed: ", ToString(reply.status), " ", reply.statusText>>

\* parseFloat of a numeral
ParseFloat(s) == CHOOSE n \in (0 - 180)..180 : ToString(n) = s

-----------------------------------------------------------------------------
(* geocode *)

GeocodePrefix == "Geocoding error: "
GeocodeGeneric == "A geocoding error occurred."

GeocodeReplies ==
    { Rejected(FetchFailed),
      Response(500, "Internal Server Error", FALSE, <<>>),
      Response(200, "OK", FALSE, <<>>),
      Response(200, "OK", TRUE, <<>>),
      Response(200, "OK", TRUE, <<[lat |-> "37", lon |-> "127", display_name |-> "Seoul, South Korea"]>>),
      Response(200, "OK", TRUE, <<[lat |-> "-34", lon |-> "151", display_name |-> ""]>>) }

geocodeStart(a) == Pending("nominatim")

\* geocodeResume with the query kept in a variable the invocations share:
\* it reads the query of whichever suspended geocode invocation wrote it first.
geocodeResumeShared(a, reply) ==
    LET writers == {q \in Slots : inv[q].phase = "Suspended" /\ inv[q].kind = "tool"
                                      /\ inv[q].target = "geocode"}
        query == IF writers = {} THEN a.query.s
                 ELSE inv[CHOOSE q \in writers : \A w \in writers : q <= w].norm.query.s
        fail(message) == Rethrow(GeocodePrefix, GeocodeGeneric, ErrorOf(message))
    IN  IF reply.kind = "reject" THEN fail(reply.message)
        ELSE IF ~ResponseOk(reply) THEN fail(RequestFailed(reply))
        ELSE IF ~reply.parses THEN fail(JsonSyntaxError)
        ELSE IF Len(reply.data) = 0 THEN fail(<<"Address not found: ", query>>)
        ELSE TextResult(<< <<"Address: ", query>> >>)

geocodeResume(a, reply) ==
    LET query == a.query.s
        fail(message) == Rethrow(GeocodePrefix, GeocodeGeneric, ErrorOf(message))
    IN  IF reply.kind = "reject" THEN fail(reply.message)
        ELSE IF ~ResponseOk(reply) THEN fail(RequestFailed(reply))
        ELSE IF ~reply.parses THEN fail(JsonSyntaxError)
        ELSE IF Len(reply.data) = 0 THEN fail(<<"Address not found: ", query>>)
        ELSE LET result == reply.data[1]
                 lat == ParseFloat(result.lat)
                 lon == ParseFloat(result.lon)
                 displayName == IF result.display_name = "" THEN query ELSE result.display_name
             IN  TextResult(<< <<"Address: ", displayName>>,
                               <<"Latitude: ", ToString(lat)>>,
                               <<"Longitude: ", ToString(lon)>>,
                               <<"Coordinates: (", ToString(lat), ", ", ToString(lon), ")">> >>)

-----------------------------------------------------------------------------
(* get_weather *)

WeatherPrefix == "Weather lookup error: "
WeatherGeneric == "An error occurred during the weather lookup."

DisplayDays == 3

Min(a, b) == IF a < b THEN a ELSE b

Day(i) ==
    [defined |-> TRUE, date |-> i, maxTemp |-> 20 + i, minTemp |-> 10 + i,
     precipitation |-> (i % 2) * 3, weathercode |-> (i - 1) * 2]
UndefinedDay ==
    [defined |-> FALSE, date |-> 0, maxTemp |-> 0, minTemp |-> 0,
     precipitation |-> 0, weathercode |-> 0]

\* daily.time[i] and its companions; past the end of the arrays, undefined
DayAt(daily, i) == IF i <= Len(daily) THEN daily[i] ELSE UndefinedDay

WeatherBody(error, reason, complete, n) ==
    [error |-> error, reason |-> reason, complete |-> complete,
     current |-> [temperature |-> 21, weathercode |-> 3, windspeed |-> 9],
     daily |-> [i \in 1..n |-> Day(i)]]

\* the replies to a request for forecast_days days
WeatherReplies(forecast_days) ==
    { Rejected(FetchFailed),
      Response(500, "Internal Server Error", FALSE, <<>>),
      Response(200, "OK", FALSE, <<>>),
      Response(200, "OK", TRUE, WeatherBody(TRUE, "Latitude must be in range of -90 to 90", FALSE, 0)),
      Response(200, "OK", TRUE, WeatherBody(FALSE, "", FALSE, 0)),
      Response(200, "OK", TRUE, WeatherBody(FALSE, "", TRUE, forecast_days)),
      Response(200, "OK", TRUE, WeatherBody(FALSE, "", TRUE, Min(forecast_days, 2))) }

WeatherCodes ==
    [c \in {0, 1, 2, 3, 45, 48, 51, 53, 55, 56, 57, 61, 63, 65, 66, 67, 71, 73, 75, 77,
            80, 81, 82, 85, 86, 95, 96, 99} |->
        CASE c = 0 -> "clear" [] c = 1 -> "mostly clear" [] c = 2 -> "partly cloudy"
          [] c = 3 -> "overcast" [] c = 45 -> "fog" [] c = 48 -> "rime fog"
          [] c = 51 -> "light drizzle" [] c = 53 -> "moderate drizzle"
          [] c = 55 -> "dense drizzle" [] c = 56 -> "light freezing drizzle"
          [] c = 57 -> "dense freezing drizzle" [] c = 61 -> "light rain"
          [] c = 63 -> "moderate rain" [] c = 65 -> "heavy rain"
          [] c = 66 -> "light freezing rain" [] c = 67 -> "heavy freezing rain"
          [] c = 71 -> "light snow" [] c = 73 -> "moderate snow" [] c = 75 -> "heavy snow"
          [] c = 77 -> "snow grains" [] c = 80 -> "light showers"
          [] c = 81 -> "moderate showers" [] c = 82 -> "violent showers"
          [] c = 85 -> "light snow showers" [] c = 86 -> "heavy snow showers"
          [] c = 95 -> "thunderstorm" [] c = 96 -> "thunderstorm with hail"
          [] OTHER -> "thunderstorm with heavy hail"]

getWeatherDescription(defined, code) ==
    IF ~defined THEN "Weather code: undefined"
    ELSE IF code \in DOMAIN WeatherCodes THEN WeatherCodes[code]
    ELSE "Weather code: " \o ToString(code)

NumOrUndefined(defined, n) == IF defined THEN ToString(n) ELSE "undefined"

DayLines(day) ==
    << <<>>,
       <<IF day.defined THEN "day " \o ToString(day.date) ELSE "Invalid Date">>,
       <<"High: ", NumOrUndefined(day.defined, day.maxTemp), "C / Low: ",
         NumOrUndefined(day.defined, day.minTemp), "C">>,
       <<"Weather: ", getWeatherDescription(day.defined, day.weathercode)>> >>
    \o (IF day.defined /\ day.precipitation > 0
        THEN << <<"Precipitation: ", ToString(day.precipitation), " mm">> >>
        ELSE <<>>)

RECURSIVE ForecastLines(_)
ForecastLines(dailyForecast) ==
    IF dailyForecast = <<>> THEN <<>>
    ELSE DayLines(Head(dailyForecast)) \o ForecastLines(Tail(dailyForecast))

\* the number of days shown, without the cap of three.
daysToShowUncapped(forecast_days) == forecast_days

daysToShow(forecast_days) == Min(forecast_days, DisplayDays)

get_weatherStart(a) == Pending("open-meteo")

get_weatherResume(a, reply) ==
    LET forecast_days == a.forecast_days.n
        fail(message) == Rethrow(WeatherPrefix, WeatherGeneric, ErrorOf(message))
    IN  IF reply.kind = "reject" THEN fail(reply.message)
        ELSE IF ~ResponseOk(reply) THEN fail(RequestFailed(reply))
        ELSE IF ~reply.parses THEN fail(JsonSyntaxError)
        ELSE IF reply.data.error THEN fail(<<"API error: ", reply.data.reason>>)
        ELSE IF ~reply.data.complete
             THEN fail(<<"Cannot read properties of undefined (reading 'temperature')">>)
        ELSE LET current == reply.data.current
                 daily == reply.data.daily
                 dailyForecast == [i \in 1..daysToShow(forecast_days) |-> DayAt(daily, i)]
             IN  TextResult(
                   << <<"Location: latitude ", ToString(a.latitude.n), ", longitude ",
                        ToString(a.longitude.n)>>,
                      <<>>,
                      <<"Current weather">>,
                      <<"Temperature: ", ToString(current.temperature), "C">>,
                      <<"Weather: ", getWeatherDescription(TRUE, current.weathercode)>>,
                      <<"Wind speed: ", ToString(current.windspeed), " km/h">>,
                      <<>>,
                      <<ToString(forecast_days), "-day forecast (first ",
                        ToString(daysToShow(forecast_days)), " days)">> >>
                   \o ForecastLines(dailyForecast))

-----------------------------------------------------------------------------
(* generate_image *)

ImagePrefix == "Image generation error: "
ImageGeneric == "An error occurred during image generation."
NoTokenMessage == <<"The HuggingFace token is not set. Set HF_TOKEN or create the huggingface_token file.">>

ImageReplies ==
    { Rejected(<<"Invalid credentials in Authorization header">>),
      Response(200, "OK", TRUE, "PNG1") }

Base64(bytes) == IF bytes = "PNG1" THEN "UE5HMQ==" ELSE ""

\* generate_image that calls the service without testing the token.
generate_imageStartNoTest(a, token) == Pending("huggingface")

generate_imageStart(a, token) ==
    IF token = ""
    THEN Done(Rethrow(ImagePrefix, ImageGeneric, ErrorOf(NoTokenMessage)))
    ELSE Pending("huggingface")

generate_imageResume(a, reply) ==
    IF reply.kind = "reject"
    THEN Rethrow(ImagePrefix, ImageGeneric, ErrorOf(reply.message))
    ELSE Returned(<<ImageBlock(Base64(reply.data), "image/png")>>, NoStructured, NoDoc, <<>>)

-----------------------------------------------------------------------------
(* server-info resource and code-review prompt *)

Listing(list) == [count |-> Len(list), list |-> list]

\* the tool list with two entries exchanged.
serverInfoToolsSwapped ==
    <<"greet", "calculator", "geocode", "get_time", "get_weather", "generate_image">>

serverInfoTools ==
    <<"greet", "calculator", "get_time", "geocode", "get_weather", "generate_image">>

serverInfoPrompts == <<"code-review">>
serverInfoResources == <<"server-info">>

serverInfo ==
    Returned(<<>>, NoStructured,
             [isDoc |-> TRUE, tools |-> Listing(serverInfoTools),
              prompts |-> Listing(serverInfoPrompts),
              resources |-> Listing(serverInfoResources)],
             <<>>)

focusInstructions ==
    [f \in Focuses |->
        CASE f = "performance" -> "focus on performance"
          [] f = "security" -> "focus on security"
          [] f = "best-practices" -> "focus on best practices"
          [] f = "readability" -> "focus on readability"
          [] OTHER -> ""]

codeReview(a) ==
    LET language == IF a.language.k = "absent" \/ a.language.s = "" THEN "text" ELSE a.language.s
        focus == IF a.focus.k = "absent" THEN "all" ELSE a.focus.s
    IN  Returned(<<>>, NoStructured, NoDoc,
                 <<[role |-> "user",
                    text |-> <<"review template [", language, "] ", a.code.s,
                               focusInstructions[focus]>>]>>)

-----------------------------------------------------------------------------
(* Handler table: the handler bound to each registered key.               *)

Clock == 1..2

AsyncTools == {"geocode", "get_weather", "generate_image"}

\* the handler's run up to its first await, or to its end
HandlerStart(kind, key, a, token, now) ==
    CASE kind = "tool" /\ key = "greet" -> Done(greet(a))
      [] kind = "tool" /\ key = "calculator" -> Done(calculator(a))
      [] kind = "tool" /\ key = "get_time" -> Done(get_time(a, now))
      [] kind = "tool" /\ key = "geocode" -> geocodeStart(a)
      [] kind = "tool" /\ key = "get_weather" -> get_weatherStart(a)
      [] kind = "tool" /\ key = "generate_image" -> generate_imageStart(a, token)
      [] kind = "resource" -> Done(serverInfo)
      [] OTHER -> Done(codeReview(a))

\* the handler's run from the reply of the external service to its end
HandlerResume(key, a, reply) ==
    CASE key = "geocode" -> geocodeResume(a, reply)
      [] key = "get_weather" -> get_weatherResume(a, reply)
      [] OTHER -> generate_imageResume(a, reply)

Replies(key, a) ==
    CASE key = "geocode" -> GeocodeReplies
      [] key = "get_weather" -> WeatherReplies(a.forecast_days.n)
      [] OTHER -> ImageReplies

-----------------------------------------------------------------------------
(* Envelopes *)

NoEnvelope ==
    [kind |-> "none", content |-> <<>>, structured |-> NoStructured, doc |-> NoDoc,
     messages |-> <<>>, message |-> <<>>]

build(outcome) ==
    [kind |-> "success", content |-> outcome.content, structured |-> outcome.structured,
     doc |-> outcome.doc, messages |-> outcome.messages, message |-> <<>>]

buildError(message) ==
    [kind |-> "error", content |-> <<>>, structured |-> NoStructured, doc |-> NoDoc,
     messages |-> <<>>, message |-> message]

NotFoundMessage(kind, target) == <<kind, " not found: ", target>>

RECURSIVE ValidationMessage(_)
\* one message per violated field, in the order the shape declares the fields
ValidationMessage(violations) ==
    IF violations = <<>> THEN <<>>
    ELSE <<Head(violations).field, ": ", Head(violations).reason, "; ">>
         \o ValidationMessage(Tail(violations))

ExecutionMessage(target, thrown) == <<target, " error: ">> \o thrown

-----------------------------------------------------------------------------
(* Requests *)

NoArgs == [none |-> AbsentV]

Request(kind, target, args) == [kind |-> kind, target |-> target, args |-> args]

Numbers == {IntV(n) : n \in NumLo..NumHi}

\* a quotient the model prints: one whose decimal expansion ends within
\* MaxFracDigits digits
Printable(args) ==
    \/ args.operator.s # "/"
    \/ args.number1.k # "int" \/ args.number2.k # "int"
    \/ args.number2.n = 0
    \/ Terminates(Abs(args.number1.n) % Abs(args.number2.n), Abs(args.number2.n), MaxFracDigits)

greetCalls ==
    {Request("tool", "greet", [name |-> n, language |-> l]) :
        n \in {StrV("Sam"), AbsentV, IntV(1)},
        l \in {AbsentV, StrV("ko"), StrV("en"), StrV("fr")}}

calculatorCalls ==
    {rq \in {Request("tool", "calculator", [number1 |-> n1, number2 |-> n2, operator |-> op]) :
                n1 \in Numbers \cup {AbsentV},
                n2 \in Numbers \cup {StrV("3")},
                op \in {StrV(o) : o \in Operators \cup {"%"}} \cup {AbsentV}} :
        Printable(rq.args)}

get_timeCalls ==
    {Request("tool", "get_time", [timezone |-> tz]) :
        tz \in {StrV("Asia/Seoul"), StrV("UTC"), StrV("Mars/Phobos"), AbsentV}}

geocodeCalls ==
    {Request("tool", "geocode", [query |-> q]) : q \in {StrV("Seoul"), StrV("Sydney"), AbsentV}}

get_weatherCalls ==
    {Request("tool", "get_weather", [latitude |-> la, longitude |-> lo, forecast_days |-> fd]) :
        la \in {IntV(37), AbsentV},
        lo \in {IntV(127), StrV("127")},
        fd \in {IntV(n) : n \in 0..FdHi} \cup {AbsentV, RealV(2), StrV("7")}}

generate_imageCalls ==
    {Request("tool", "generate_image", [prompt |-> p]) : p \in {StrV("a cat"), AbsentV}}

resourceReads ==
    {Request("resource", u, NoArgs) : u \in {"mcp://server-info", "mcp://missing"}}

promptRenders ==
    {Request("prompt", "code-review", [code |-> c, language |-> l, focus |-> f]) :
        c \in {StrV("x = 1"), AbsentV},
        l \in {StrV("python"), AbsentV},
        f \in {StrV("security"), StrV("speed"), AbsentV}}

unknownTargets ==
    {Request("tool", "no_such_tool", NoArgs), Request("prompt", "no_such_prompt", NoArgs),
     Request("tool", "code-review", NoArgs), Request("prompt", "greet", NoArgs)}

Requests ==
    greetCalls \cup calculatorCalls \cup get_timeCalls \cup geocodeCalls \cup get_weatherCalls
    \cup generate_imageCalls \cup resourceReads \cup promptRenders \cup unknownTargets

-----------------------------------------------------------------------------
(* Dispatcher: one invocation per slot,                                    *)
(*   Received -> Resolved -> Validated -> (Suspended ->) Executed          *)
(*            -> Enveloped -> Sent,   or at any step -> Failed ->          *)
(*   Enveloped -> Sent.                                                    *)

IdleInv ==
    [phase |-> "Idle", kind |-> "none", target |-> "", args |-> NoArgs, norm |-> NoArgs,
     started |-> FALSE, net |-> <<>>, reply |-> NoReply, outcome |-> NoOutcome, failure |-> <<>>,
     failedAt |-> "", envelope |-> NoEnvelope, path |-> <<>>]

Step(i, phase) == [i EXCEPT !.phase = phase, !.path = Append(i.path, phase)]

Fail(i, at, message) ==
    [Step(i, "Failed") EXCEPT !.failure = message, !.failedAt = at]

\* the handler has ended: its result, or the error envelope's message
Finish(i, outcome) ==
    IF outcome.ok
    THEN [Step(i, "Executed") EXCEPT !.outcome = outcome]
    ELSE [Fail(i, "execute", ExecutionMessage(i.target, outcome.thrown)) EXCEPT !.outcome = outcome]

Receive(r, rq) ==
    /\ pcMain = "serving"
    /\ inv[r].phase = "Idle"
    /\ inv' = [inv EXCEPT ![r] =
                 [Step(IdleInv, "Received") EXCEPT
                     !.kind = rq.kind, !.target = rq.target, !.args = rq.args]]
    /\ client' = [client EXCEPT ![r] = <<>>]
    /\ UNCHANGED <<HF_TOKEN, pcMain, regIdx, tools, resources, prompts, lastReg, stdout>>

\* Resolve without the registry lookup.
ResolveUnchecked(r) ==
    /\ inv[r].phase = "Received"
    /\ inv' = [inv EXCEPT ![r] = Step(inv[r], "Resolved")]
    /\ UNCHANGED <<HF_TOKEN, pcMain, regIdx, tools, resources, prompts, lastReg, stdout, client>>

Resolve(r) ==
    /\ inv[r].phase = "Received"
    /\ inv' = [inv EXCEPT ![r] =
                 IF Lookup(RegistryOf(inv[r].kind), inv[r].target).found
                 THEN Step(inv[r], "Resolved")
                 ELSE Fail(inv[r], "resolve", NotFoundMessage(inv[r].kind, inv[r].target))]
    /\ UNCHANGED <<HF_TOKEN, pcMain, regIdx, tools, resources, prompts, lastReg, stdout, client>>

Validate(r) ==
    /\ inv[r].phase = "Resolved"
    /\ LET shape == InputShape(inv[r].kind, inv[r].target)
       IN  inv' = [inv EXCEPT ![r] =
                     IF Accepts(shape, inv[r].args)
                     THEN [Step(inv[r], "Validated") EXCEPT !.norm = Normalize(shape, inv[r].args)]
                     ELSE Fail(inv[r], "validate",
                               ValidationMessage(Violations(shape, inv[r].args)))]
    /\ UNCHANGED <<HF_TOKEN, pcMain, regIdx, tools, resources, prompts, lastReg, stdout, client>>

Execute(r) ==
    /\ inv[r].phase = "Validated"
    /\ \E now \in Clock :
         LET i == [inv[r] EXCEPT !.started = TRUE]
             st == HandlerStart(i.kind, i.target, i.norm, HF_TOKEN, now)
         IN  inv' = [inv EXCEPT ![r] =
                       IF st.done THEN Finish(i, st.outcome)
                       ELSE [Step(i, "Suspended") EXCEPT !.net = Append(i.net, st.service)]]
    /\ UNCHANGED <<HF_TOKEN, pcMain, regIdx, tools, resources, prompts, lastReg, stdout, client>>

ExternalReply(r) ==
    /\ inv[r].phase = "Suspended"
    /\ \E reply \in Replies(inv[r].target, inv[r].norm) :
         inv' = [inv EXCEPT ![r] =
                   Finish([inv[r] EXCEPT !.reply = reply],
                          HandlerResume(inv[r].target, inv[r].norm, reply))]
    /\ UNCHANGED <<HF_TOKEN, pcMain, regIdx, tools, resources, prompts, lastReg, stdout, client>>

Envelope(r) ==
    /\ inv[r].phase \in {"Executed", "Failed"}
    /\ inv' = [inv EXCEPT ![r] =
                 [Step(inv[r], "Enveloped") EXCEPT
                    !.envelope = IF inv[r].phase = "Executed"
                                 THEN build(inv[r].outcome)
                                 ELSE buildError(inv[r].failure)]]
    /\ UNCHANGED <<HF_TOKEN, pcMain, regIdx, tools, resources, prompts, lastReg, stdout, client>>

Send(r) ==
    /\ inv[r].phase = "Enveloped"
    /\ inv' = [inv EXCEPT ![r] = Step(inv[r], "Sent")]
    /\ client' = [client EXCEPT ![r] = Append(client[r], inv[r].envelope)]
    /\ UNCHANGED <<HF_TOKEN, pcMain, regIdx, tools, resources, prompts, lastReg, stdout>>

\* the request is discarded once its response is sent
Retire(r) ==
    /\ inv[r].phase = "Sent"
    /\ inv' = [inv EXCEPT ![r] = IdleInv]
    /\ client' = [client EXCEPT ![r] = <<>>]
    /\ UNCHANGED <<HF_TOKEN, pcMain, regIdx, tools, resources, prompts, lastReg, stdout>>

-----------------------------------------------------------------------------
(* The server: the start-up of index.ts, then requests one at a time.     *)

Tokens == {"", "hf_token"}

Init ==
    /\ HF_TOKEN \in Tokens
    /\ pcMain = "registering"
    /\ regIdx = 0
    /\ tools = <<>>
    /\ resources = <<>>
    /\ prompts = <<>>
    /\ lastReg = NoReg
    /\ stdout = <<>>
    /\ inv = [r \in Slots |-> IdleInv]
    /\ client = [r \in Slots |-> <<>>]

Next ==
    \/ RegisterNext
    \/ ConnectOk
    \/ ConnectFail
    \/ LogStarted
    \/ \E r \in Serial : \E rq \in Requests : Receive(r, rq)
    \/ \E r \in Serial : Resolve(r)
    \/ \E r \in Serial : Validate(r)
    \/ \E r \in Serial : Execute(r)
    \/ \E r \in Serial : ExternalReply(r)
    \/ \E r \in Serial : Envelope(r)
    \/ \E r \in Serial : Send(r)
    \/ \E r \in Serial : Retire(r)

Spec == Init /\ [][Next]_vars

\* The event loop runs every step of an invocation that is ready, and a
\* fetch ends: it resolves, or it rejects (at the latest on its timeout).
Progress(r) ==
    Resolve(r) \/ Validate(r) \/ Execute(r) \/ ExternalReply(r) \/ Envelope(r) \/ Send(r)

SpecFair == Spec /\ \A r \in Serial : WF_vars(Progress(r))

-----------------------------------------------------------------------------
(* Registration calls in any order and with any key: the registries under *)
(* every sequence of register calls, duplicates included.                  *)

RegKeys == {"greet", "mcp://server-info"}

RegCalls ==
    {Descriptor(kind, key, key, out) :
        kind \in {"tool", "resource", "prompt"}, key \in RegKeys, out \in BOOLEAN}

RegisterAny ==
    /\ pcMain = "registering"
    /\ \E d \in RegCalls :
         /\ regIdx' = regIdx
         /\ RegisterCall(d)
    /\ UNCHANGED <<HF_TOKEN, stdout, inv, client>>

NextReg == RegisterAny

SpecReg == Init /\ [][NextReg]_vars

-----------------------------------------------------------------------------
(* Concurrent invocations: the host delivers a request while another      *)
(* invocation is in progress; every slot runs the same state machine.      *)

RequestsConc ==
    { Request("tool", "geocode", [query |-> StrV("Seoul")]),
      Request("tool", "geocode", [query |-> StrV("Sydney")]),
      Request("tool", "get_weather",
              [latitude |-> IntV(37), longitude |-> IntV(127), forecast_days |-> IntV(2)]),
      Request("tool", "get_weather",
              [latitude |-> IntV(37), longitude |-> StrV("127"), forecast_days |-> AbsentV]),
      Request("tool", "generate_image", [prompt |-> StrV("a cat")]),
      Request("tool", "get_time", [timezone |-> StrV("UTC")]),
      Request("tool", "get_time", [timezone |-> StrV("Mars/Phobos")]),
      Request("tool", "calculator",
              [number1 |-> IntV(6), number2 |-> IntV(3), operator |-> StrV("/")]),
      Request("tool", "calculator",
              [number1 |-> IntV(5), number2 |-> IntV(0), operator |-> StrV("/")]),
      Request("tool", "greet", [name |-> StrV("Sam"), language |-> AbsentV]),
      Request("tool", "no_such_tool", NoArgs),
      Request("resource", "mcp://server-info", NoArgs) }

NextConc ==
    \/ RegisterNext
    \/ ConnectOk
    \/ ConnectFail
    \/ LogStarted
    \/ \E r \in Slots : \E rq \in RequestsConc : Receive(r, rq)
    \/ \E r \in Slots : Resolve(r)
    \/ \E r \in Slots : Validate(r)
    \/ \E r \in Slots : Execute(r)
    \/ \E r \in Slots : ExternalReply(r)
    \/ \E r \in Slots : Envelope(r)
    \/ \E r \in Slots : Send(r)
    \/ \E r \in Slots : Retire(r)

SpecConc == Init /\ [][NextConc]_vars

\* The steps of an invocation that wait for nothing outside the process:
\* the event loop runs each of them once it is ready.  The reply of an
\* external service is not among them: a service may never answer.
Local(r) == Resolve(r) \/ Validate(r) \/ Execute(r) \/ Envelope(r) \/ Send(r)

SpecConcFair == SpecConc /\ \A r \in Slots : WF_vars(Local(r))

-----------------------------------------------------------------------------
(* Properties *)

Has(seq, x) == \E k \in 1..Len(seq) : seq[k] = x

\* sub occurs in line as a run of consecutive fragments
Contains(line, sub) ==
    \E k \in 0..(Len(line) - Len(sub)) : SubSeq(line, k + 1, k + Len(sub)) = sub

IsNumber(v) == v.k \in {"int", "real"}

IsTool(i, name) == i.kind = "tool" /\ i.target = name

Answered(i) == i.phase \in {"Enveloped", "Sent"}

\* C1: a handler starts only for a request whose arguments the validator
\* has accepted against the tool's declared input shape: never for a
\* request not yet validated, nor for one with a missing required field, an
\* operator outside + - * /, or forecast_days outside 1..16.
C1_HandlerOnlyAfterAcceptance ==
    \A r \in Slots :
        LET i == inv[r]
        IN  i.started =>
              /\ Has(i.path, "Validated")
              /\ i.failedAt \notin {"resolve", "validate"}
              /\ IsTool(i, "greet") =>
                    /\ i.args.name.k = "str"
                    /\ i.args.language.k = "absent" \/
                         (i.args.language.k = "str" /\ i.args.language.s \in {"ko", "en"})
              /\ IsTool(i, "calculator") =>
                    /\ IsNumber(i.args.number1) /\ IsNumber(i.args.number2)
                    /\ i.args.operator.k = "str"
                    /\ i.args.operator.s \in {"+", "-", "*", "/"}
              /\ IsTool(i, "get_time") => i.args.timezone.k = "str"
              /\ IsTool(i, "geocode") => i.args.query.k = "str"
              /\ IsTool(i, "get_weather") =>
                    /\ IsNumber(i.args.latitude) /\ IsNumber(i.args.longitude)
                    /\ i.args.forecast_days.k = "absent" \/
                         (i.args.forecast_days.k = "int" /\ i.args.forecast_days.n \in 1..16)
              /\ IsTool(i, "generate_image") => i.args.prompt.k = "str"
              /\ i.kind = "prompt" => i.args.code.k = "str"

C1_Witness ==
    \E r \in Slots :
        /\ inv[r].started
        /\ IsTool(inv[r], "get_weather")
        /\ inv[r].args.forecast_days = IntV(16)

ToolResponse(r) ==
    inv[r].phase = "Sent" /\ inv[r].kind = "tool" /\ inv[r].target \in Keys(tools)

\* C2 as stated: every response for a registered tool, error responses
\* included, carries structured if and only if the tool's descriptor
\* declares an output shape.
C2_EveryResponse ==
    \A r \in Slots :
        ToolResponse(r) =>
            \A k \in 1..Len(client[r]) :
                client[r][k].structured.present <=> Lookup(tools, inv[r].target).d.outputShape

\* C2, amended: every success response for a registered tool carries
\* structured if and only if the tool's descriptor declares an output shape.
C2_SuccessResponses ==
    \A r \in Slots :
        ToolResponse(r) =>
            \A k \in 1..Len(client[r]) :
                client[r][k].kind = "success" =>
                    (client[r][k].structured.present
                        <=> Lookup(tools, inv[r].target).d.outputShape)

C2_Witness ==
    \E r \in Slots :
        /\ ToolResponse(r)
        /\ inv[r].target = "get_weather"
        /\ Len(client[r]) = 1
        /\ client[r][1].kind = "success"
        /\ client[r][1].structured.present

ExternalFailure(reply) ==
    reply.kind = "reject" \/ (reply.kind = "response" /\ ~ResponseOk(reply))

C3_Safety ==
    \A r \in Slots :
        LET i == inv[r]
        IN  /\ i.phase = "Idle" => i = IdleInv /\ client[r] = <<>>
            /\ i.phase = "Received" =>
                 i = [Step(IdleInv, "Received") EXCEPT
                         !.kind = i.kind, !.target = i.target, !.args = i.args]
            /\ i.phase # "Idle" =>
                 /\ i.path[1] = "Received" /\ i.path[Len(i.path)] = i.phase
                 /\ \A a, b \in 1..Len(i.path) : a # b => i.path[a] # i.path[b]
                 /\ client[r] = IF i.phase = "Sent" THEN <<i.envelope>> ELSE <<>>
                 /\ ~(Has(i.path, "Failed") /\ Has(i.path, "Executed"))
                 /\ Answered(i) =>
                      /\ i.envelope.kind \in {"success", "error"}
                      /\ i.envelope.kind = "error" <=> Has(i.path, "Failed")
                      /\ i.envelope.kind = "success" <=> Has(i.path, "Executed")
                      /\ i.target \notin Keys(RegistryOf(i.kind)) => i.envelope.kind = "error"
                      /\ ExternalFailure(i.reply) => i.envelope.kind = "error"

\* C3: every request passes through the state machine once (no state is
\* entered twice) and ends in exactly one response sent to the client, a
\* success envelope or an error envelope; a failure at resolve, validate or
\* execute goes to Failed and then to an error envelope, and the next
\* request starts from a fresh invocation.
C3_OnePassOneResponse ==
    /\ []C3_Safety
    /\ \A r \in Serial : (inv[r].phase = "Received") ~> (inv[r].phase = "Sent")

C3_Witness ==
    \E r \in Slots :
        /\ inv[r].phase = "Sent"
        /\ IsTool(inv[r], "geocode")
        /\ inv[r].failedAt = "execute"
        /\ inv[r].reply.status = 500
        /\ Len(client[r]) = 1

\* C4: a request whose target is absent from its registry yields an error
\* envelope whose message says "<kind> not found: <target>"; no handler is
\* started and the caller gets the envelope.
C4_NotFound ==
    \A r \in Slots :
        LET i == inv[r]
        IN  (i.phase \notin {"Idle", "Received"} /\ i.target \notin Keys(RegistryOf(i.kind))) =>
              /\ ~i.started
              /\ i.failedAt = "resolve"
              /\ i.failure = <<i.kind, " not found: ", i.target>>
              /\ i.phase \in {"Failed", "Enveloped", "Sent"}
              /\ Answered(i) => i.envelope.kind = "error" /\ i.envelope.message = i.failure
              /\ i.phase = "Sent" => client[r] = <<i.envelope>>

C4_Witness ==
    \E r \in Slots :
        /\ inv[r].phase = "Sent"
        /\ inv[r].target = "no_such_tool"
        /\ client[r][1].kind = "error"

\* C5: a register call with a key its registry already holds fails and
\* leaves all three registries as they were: same keys, same descriptors,
\* same order.
C5_DuplicateRegisterFails ==
    [][ (lastReg'.called /\ lastReg'.d.key \in Keys(RegistryOf(lastReg'.d.kind))) =>
            /\ ~lastReg'.ok
            /\ tools' = tools
            /\ resources' = resources
            /\ prompts' = prompts ]_vars

C5_Witness ==
    /\ lastReg.called
    /\ ~lastReg.ok
    /\ lastReg.d.kind = "tool"
    /\ Len(tools) = 2
    /\ pcMain = "crashed"

ExecutionFailure(r) == inv[r].phase = "Sent" /\ inv[r].failedAt = "execute"

\* C6: whenever a handler fails, the error envelope's message is
\* "<tool> error: <cause>" and contains the original cause's message
\* unchanged, for every tool: no cause is replaced or dropped.
C6_CauseNeverReplaced ==
    \A r \in Slots :
        ExecutionFailure(r) =>
            LET e == inv[r].envelope
            IN  /\ e.kind = "error"
                /\ Len(e.message) > 2
                /\ e.message[1] = inv[r].target /\ e.message[2] = " error: "
                /\ Contains(e.message, inv[r].outcome.cause)

\* C7: the tool list of the self-description names every registered tool
\* once, in registration order, and each of the three count fields equals
\* the length of its list.
C7_ServerInfoLists ==
    \A r \in Slots :
        (Answered(inv[r]) /\ inv[r].kind = "resource" /\ inv[r].envelope.kind = "success") =>
            LET doc == inv[r].envelope.doc
            IN  /\ doc.isDoc
                /\ doc.tools.list = [k \in 1..Len(tools) |-> tools[k].name]
                /\ doc.tools.count = Len(doc.tools.list)
                /\ doc.prompts.count = Len(doc.prompts.list)
                /\ doc.resources.count = Len(doc.resources.list)

C7_Witness ==
    \E r \in Slots :
        /\ inv[r].phase = "Sent"
        /\ inv[r].target = "mcp://server-info"
        /\ client[r][1].kind = "success"
        /\ client[r][1].doc.tools.count = 6

\* the daily-forecast entries of a weather text: its "High: ... / Low: ..." lines
DailyEntries(text) ==
    Cardinality({k \in 1..Len(text) : Len(text[k]) > 0 /\ text[k][1] = "High: "})

\* C8: get_weather accepts every integer forecast_days in 1..16, rejects 17
\* as out of range before the handler runs, and a successful call with
\* forecast_days 7, given or defaulted, has exactly 3 daily-forecast entries.
C8_ForecastDays ==
    \A r \in Slots :
        LET i == inv[r]
            fd == i.args.forecast_days
        IN  (IsTool(i, "get_weather") /\ i.phase \notin {"Idle", "Received", "Resolved"}) =>
              /\ (fd.k = "int" /\ fd.n \in 1..16 /\ IsNumber(i.args.latitude)
                    /\ IsNumber(i.args.longitude)) => i.failedAt # "validate"
              /\ fd = IntV(17) =>
                    /\ i.failedAt = "validate"
                    /\ Has(i.failure, "out_of_range")
                    /\ ~i.started /\ i.net = <<>>
              /\ (i.phase = "Sent" /\ i.envelope.kind = "success"
                    /\ (fd = IntV(7) \/ fd = AbsentV)) =>
                    /\ Len(i.envelope.content) = 1
                    /\ DailyEntries(i.envelope.content[1].text) = 3

C8_Witness ==
    \E r \in Slots :
        /\ IsTool(inv[r], "get_weather")
        /\ inv[r].phase = "Sent"
        /\ inv[r].args.forecast_days = AbsentV
        /\ client[r][1].kind = "success"
        /\ Len(inv[r].reply.data.daily) = 7

RECURSIVE Pad(_, _)
\* the last k decimal digits of x
Pad(x, k) == IF k = 0 THEN "" ELSE Pad(x \div 10, k - 1) \o ToString(x % 10)

\* the decimal numeral of n1 / n2: the least k with n1 * 10^k a multiple of
\* n2, and the quotient m of that multiple written with k digits after the point
QuotientNumeral(n1, n2) ==
    LET k == CHOOSE k \in 0..MaxFracDigits :
                /\ (Abs(n1) * 10^k) % Abs(n2) = 0
                /\ \A j \in 0..(k - 1) : (Abs(n1) * 10^j) % Abs(n2) # 0
        m == (Abs(n1) * 10^k) \div Abs(n2)
        neg == n1 * n2 < 0
    IN  (IF neg THEN "-" ELSE "") \o ToString(m \div 10^k)
        \o (IF k = 0 THEN "" ELSE "." \o Pad(m % 10^k, k))

ResultNumeral(n1, op, n2) ==
    CASE op = "+" -> ToString(n1 + n2)
      [] op = "-" -> ToString(n1 - n2)
      [] op = "*" -> ToString(n1 * n2)
      [] OTHER -> QuotientNumeral(n1, n2)

\* C9: a calculator call with operator / and number2 = 0 ends in an error
\* envelope with the division-by-zero message, never in a success; every
\* other accepted call returns one text block equal to
\* "<number1> <operator> <number2> = <result>".
C9_Calculator ==
    \A r \in Slots :
        LET i == inv[r]
        IN  (IsTool(i, "calculator") /\ i.phase = "Sent" /\ i.failedAt # "validate") =>
              LET n1 == i.args.number1.n
                  n2 == i.args.number2.n
                  op == i.args.operator.s
              IN  IF op = "/" /\ n2 = 0
                  THEN /\ i.envelope.kind = "error"
                       /\ Contains(i.envelope.message, <<"Cannot divide by zero.">>)
                  ELSE /\ i.envelope.kind = "success"
                       /\ Len(i.envelope.content) = 1
                       /\ i.envelope.content[1].type = "text"
                       /\ i.envelope.content[1].text =
                            << <<ToString(n1) \o " " \o op \o " " \o ToString(n2) \o " = "
                                 \o ResultNumeral(n1, op, n2)>> >>

C9_Witness ==
    \E r \in Slots :
        /\ IsTool(inv[r], "calculator")
        /\ inv[r].phase = "Sent"
        /\ inv[r].args.number1 = IntV(6) /\ inv[r].args.number2 = IntV(3)
        /\ inv[r].args.operator = StrV("/")
        /\ client[r][1].content[1].text = << <<"6 / 3 = 2">> >>

NoTokenImage(r) == IsTool(inv[r], "generate_image") /\ HF_TOKEN = ""

\* C10: a generate_image invocation made while HF_TOKEN is empty never
\* starts a network call and ends in an error envelope.
C10_NoTokenNoNetwork ==
    /\ [](\A r \in Slots :
            NoTokenImage(r) =>
                /\ inv[r].net = <<>>
                /\ inv[r].phase \notin {"Suspended", "Executed"}
                /\ Answered(inv[r]) => inv[r].envelope.kind = "error")
    /\ \A r \in Serial :
          (NoTokenImage(r) /\ inv[r].phase = "Received")
              ~> (inv[r].phase = "Sent" /\ inv[r].envelope.kind = "error")

C10_Witness ==
    \E r \in Slots :
        /\ NoTokenImage(r)
        /\ inv[r].started
        /\ inv[r].phase = "Sent"
        /\ Contains(client[r][1].message, NoTokenMessage)

StartupFailed == pcMain \in {"crashed", "connectFailed", "noTransport"}

ReportedStarted == Has(stdout, "MCP server started")

\* C12: after an unrecoverable startup error (a duplicate registration, or
\* the transport failing to connect) no request is dispatched and the
\* server is never reported as started.
C12_StartupErrorEndsStartup ==
    StartupFailed =>
        /\ ~ReportedStarted
        /\ \A r \in Slots : inv[r] = IdleInv /\ client[r] = <<>>

\* the envelope of invocation i run alone: the request, the credential, the
\* clock reading and the reply of the external service decide it
RunAlone(i, now) ==
    IF ~Lookup(RegistryOf(i.kind), i.target).found
    THEN buildError(NotFoundMessage(i.kind, i.target))
    ELSE LET shape == InputShape(i.kind, i.target)
         IN  IF ~Accepts(shape, i.args)
             THEN buildError(ValidationMessage(Violations(shape, i.args)))
             ELSE LET a == Normalize(shape, i.args)
                      st == HandlerStart(i.kind, i.target, a, HF_TOKEN, now)
                      outcome == IF st.done THEN st.outcome
                                 ELSE HandlerResume(i.target, a, i.reply)
                  IN  IF outcome.ok THEN build(outcome)
                      ELSE buildError(ExecutionMessage(i.target, outcome.thrown))

NeedsService(i) == i.kind = "tool" /\ i.target \in AsyncTools

\* every response is the one its invocation produces when run alone
C11_Isolated ==
    \A r \in Slots :
        inv[r].phase = "Sent" =>
            /\ client[r] = <<inv[r].envelope>>
            /\ \E now \in Clock : inv[r].envelope = RunAlone(inv[r], now)

\* a request can be received on an idle slot whatever the other slots do
C11_CanBegin ==
    \A r \in Slots :
        (pcMain = "serving" /\ inv[r].phase = "Idle") =>
            ENABLED (\E rq \in RequestsConc : Receive(r, rq))

\* C11: while one invocation is suspended on an external service the
\* dispatcher can begin a different invocation and complete it (one that
\* needs no service is sent even if the suspended one is never answered);
\* a step of one invocation leaves every other invocation as it was, and
\* under every interleaving each response is the one the invocation
\* produces when run alone with the same external reply.
C11_ConcurrentInvocationsIsolated ==
    /\ [](C11_Isolated /\ C11_CanBegin)
    /\ [][\E r \in Slots :
             \A q \in Slots \ {r} : inv'[q] = inv[q] /\ client'[q] = client[q]]_vars
    /\ \A r \in Slots :
          (inv[r].phase = "Received" /\ ~NeedsService(inv[r])) ~> (inv[r].phase = "Sent")

C11_Witness ==
    /\ inv[1].phase = "Suspended"
    /\ IsTool(inv[1], "geocode") /\ inv[1].args.query = StrV("Seoul")
    /\ inv[2].phase = "Sent"
    /\ IsTool(inv[2], "geocode") /\ inv[2].args.query = StrV("Sydney")
    /\ client[2] = <<buildError(<<"geocode", " error: ", GeocodePrefix,
                                  "Address not found: ", "Sydney">>)>>

====
